---------------------------- MODULE Spec2Model ----------------------------
(***************************************************************************)
(* Convey: push-to-talk dictation.  The model covers the iced App state    *)
(* machine (src/src/ui/mod.rs), the commands it dispatches to the executor *)
(* (src/src/workflow.rs), the AudioRecorder behind the RecorderService     *)
(* mutex (src/src/audio.rs, src/src/services/recorder.rs) and the          *)
(* collaborators the workflow calls (history, clipboard, temp files).      *)
(***************************************************************************)
EXTENDS Naturals, Integers, Sequences, FiniteSets, TLC

\* ------------------------------------------------------------------ bounds
MaxTasks  == 2      \* commands dispatched with Command::perform in one run
MaxEvents == 2      \* events waiting in a hotkey channel between two polls
MaxBlocks == 2      \* sample blocks the device hands to the callbacks in one run
MaxQueued == 2      \* bar updates waiting on the main dispatch queue

\* ------------------------------------------------------------------- texts
\* A text is a sequence of characters.  Option<T> is <<>> (None) or <<v>>.
TextHello == <<"h","e","l","l","o"," ","w","o","r","l","d">>
TextEnter == <<"c","a","l","l"," ","m","o","m"," ","a","n","d"," ","p","r","e","s","s"," ","e","n","t","e","r",".">>
TextClean == <<"H","e","l","l","o",","," ","w","o","r","l","d",".">>

RawTexts   == {<<>>, TextHello, TextEnter}   \* what whisper-cli can return
CleanTexts == {TextClean}                    \* what the AI client can return

\* a list that also takes the phrases without a conjunction before them
patterns_Bare ==
  << <<"a","n","d"," ","p","r","e","s","s"," ","e","n","t","e","r">>,
     <<"t","h","e","n"," ","p","r","e","s","s"," ","e","n","t","e","r">>,
     <<"p","r","e","s","s"," ","e","n","t","e","r">>,
     <<"e","n","t","e","r">> >>

\* workflow.rs detect_and_strip_enter_command: the phrases looked for
patterns ==
  << <<"a","n","d"," ","p","r","e","s","s"," ","e","n","t","e","r">>,
     <<"a","n","d"," ","h","i","t"," ","e","n","t","e","r">>,
     <<"a","n","d"," ","p","r","e","s","s"," ","r","e","t","u","r","n">>,
     <<"a","n","d"," ","h","i","t"," ","r","e","t","u","r","n">>,
     <<"t","h","e","n"," ","p","r","e","s","s"," ","e","n","t","e","r">>,
     <<"t","h","e","n"," ","h","i","t"," ","e","n","t","e","r">>,
     <<"a","n","d"," ","p","r","e","s","e","n","t"," ","e","n","t","e","r">>,
     <<"a","n","d"," ","p","r","e","s","e","n","c","e"," ","e","n","t","e","r">>,
     <<"a","n","d"," ","p","r","e","s","s","i","n","g"," ","e","n","t","e","r">>,
     <<"a","n","d"," ","p","r","e","s","i","d","e","n","t"," ","e","n","t","e","r">>,
     <<"t","h","e","n"," ","p","r","e","s","e","n","t"," ","e","n","t","e","r">>,
     <<"t","h","e","n"," ","p","r","e","s","s","i","n","g"," ","e","n","t","e","r">> >>

TrimChars == {".", "!", "?", ",", ";", " "}
Whitespace == {" ", "\t", "\n"}
\* A character is written as a string; the two beyond ASCII that matter to
\* str::to_lowercase are named by their code points.
CapitalIDot == "<U+0130>"     \* lowercases to "i" followed by U+0307
\* UTF-8 length of a character in bytes
Width(c) == IF c \in {CapitalIDot, "<U+0307>"} THEN 2 ELSE 1
RECURSIVE ByteLen(_)
ByteLen(s) == IF s = <<>> THEN 0 ELSE Width(Head(s)) + ByteLen(Tail(s))

UpperCase == [c \in {"A","C","D","E","G","H","I","N","P","R","S","T","U","M","O","W","L"} |->
                CASE c = "A" -> "a" [] c = "C" -> "c" [] c = "D" -> "d"
                  [] c = "E" -> "e" [] c = "H" -> "h" [] c = "I" -> "i"
                  [] c = "N" -> "n" [] c = "P" -> "p" [] c = "R" -> "r"
                  [] c = "S" -> "s" [] c = "T" -> "t" [] c = "M" -> "m"
                  [] c = "O" -> "o" [] c = "W" -> "w" [] c = "L" -> "l"
                  [] c = "G" -> "g" [] c = "U" -> "u"]

RECURSIVE trim_end_matches(_, _)
trim_end_matches(s, cs) ==
    IF s # <<>> /\ s[Len(s)] \in cs
    THEN trim_end_matches(SubSeq(s, 1, Len(s) - 1), cs)
    ELSE s

\* a lowercasing that leaves every character as it is
LowerOf_AsIs(c) == <<c>>

\* char::to_lowercase: one character may become two
LowerOf(c) ==
    IF c \in DOMAIN UpperCase THEN <<UpperCase[c]>>
    ELSE IF c = CapitalIDot THEN <<"i", "<U+0307>">>
    ELSE <<c>>

RECURSIVE to_lowercase(_)
to_lowercase(s) == IF s = <<>> THEN <<>> ELSE LowerOf(Head(s)) \o to_lowercase(Tail(s))

ends_with(s, p) == Len(s) >= Len(p) /\ SubSeq(s, Len(s) - Len(p) + 1, Len(s)) = p

\* &s[..n] with n a byte offset: the characters before it, or a panic when
\* the offset is not on a character boundary
Panicked == <<"<panic>">>
SliceTo(s, n) ==
    IF \E k \in 0..Len(s) : ByteLen(SubSeq(s, 1, k)) = n
    THEN SubSeq(s, 1, CHOOSE k \in 0..Len(s) : ByteLen(SubSeq(s, 1, k)) = n)
    ELSE Panicked

\* workflow.rs detect_and_strip_enter_command: <<cleaned_text, should_press_enter>>
RECURSIVE strip_from(_, _)
strip_from(text, k) ==
    IF k > Len(patterns) THEN <<text, FALSE>>
    ELSE LET trimmed == trim_end_matches(text, TrimChars)
             trimmed_lower == to_lowercase(trimmed)
         IN IF ends_with(trimmed_lower, patterns[k])
            THEN LET pattern_start == ByteLen(trimmed) - Len(patterns[k])
                     head == SliceTo(trimmed, pattern_start)
                 IN IF head = Panicked THEN <<Panicked, FALSE>>
                    ELSE <<trim_end_matches(head, Whitespace), TRUE>>
            ELSE strip_from(text, k + 1)

detect_and_strip_enter_command(text) == strip_from(text, 1)

\* ------------------------------------------------------------------- state
VARIABLES
    is_recording,    \* App.is_recording
    is_processing,   \* App.is_processing
    notch,           \* NotchOverlay: running and processing flags
    uiWait,          \* the UI thread is blocked on the RecorderService mutex
    hotkeyIsFn,      \* settings.hotkey is "fn"/"globe": the modifier tap is the source
    hotkeyEvents,    \* HOTKEY_EVENTS channel
    fnEvents,        \* FnKeyMonitor channel
    lastFnState,     \* LAST_FN_STATE of the event tap callback
    tasks,           \* commands handed to the executor, in dispatch order
    msgs,            \* result messages waiting for App::update, in completion order
    recorder,        \* AudioRecorder: recording flag, output_path, writer
    recLock,         \* task holding the RecorderService mutex across stop's sleep
    meter,           \* AmplitudeMeter
    writers,         \* every WavWriter created so far
    streams,         \* writers captured by a playing (forgotten) input stream
    files,           \* temporary audio files that exist
    history,         \* rows of the transcriptions table
    clipboard,       \* system clipboard content
    pastes,          \* keystrokes sent by osascript
    now,             \* the last Utc::now().timestamp() read; 0 before the first
    settingsFile,    \* AppSettings stored in settings.json
    startCalls,      \* number of RecorderService::start invocations
    idleToRec,       \* number of times App.is_recording went from false to true
    sampleFormat,    \* config.sample_format() of the default input device
    callbacks,       \* the data callback of each input stream, by its writer
    strip_in,        \* the text handed to detect_and_strip_enter_command, in parts
    strip_out,       \* what the call returned, once it has returned
    sample_in,       \* a sample handed to the conversion of an input callback
    sample_out       \* the value the callback hands to write_sample for it

uiVars   == <<is_recording, is_processing, notch, uiWait, idleToRec>>
inVars   == <<hotkeyIsFn, hotkeyEvents, fnEvents, lastFnState>>
recVars  == <<recorder, recLock, writers, streams, now, startCalls>>
extVars  == <<files, history, clipboard, pastes, settingsFile>>
capVars  == <<sampleFormat, callbacks>>
fnVars   == <<strip_in, strip_out, sample_in, sample_out>>
vars == <<is_recording, is_processing, notch, uiWait, hotkeyIsFn,
          hotkeyEvents, fnEvents, lastFnState, tasks, msgs, recorder, recLock,
          meter, writers, streams, files, history, clipboard, pastes, now,
          settingsFile, startCalls, idleToRec, sampleFormat, callbacks,
          strip_in, strip_out, sample_in, sample_out>>

NoPath   == 0
NoWriter == 0
NoTask   == 0

\* storage.rs AppSettings::default(), as far as the session and workflow read it
DefaultSettings ==
    [hotkey |-> "Fn", auto_paste |-> FALSE, auto_paste_and_enter |-> FALSE,
     ai_processing_enabled |-> FALSE, recognize_press_enter |-> TRUE]

\* a key combination as the trigger, auto-paste and AI clean-up switched on
ComboSettings ==
    [DefaultSettings EXCEPT !.hotkey = "F9", !.auto_paste = TRUE,
                            !.ai_processing_enabled = TRUE]

\* every combination of the flags the workflow reads
AllSettings ==
    [hotkey : {"Fn"}, auto_paste : BOOLEAN, auto_paste_and_enter : BOOLEAN,
     ai_processing_enabled : BOOLEAN, recognize_press_enter : BOOLEAN]

NewTask(kind) ==
    [kind |-> kind, pc |-> kind, audio_path |-> NoPath, settings |-> DefaultSettings,
     text |-> <<>>, processed |-> <<>>, final_text |-> <<>>, enter |-> FALSE,
     trace |-> <<>>, result |-> "none"]

\* NotchOverlay::new: no update thread, nothing computed, nothing queued on
\* the main dispatch queue, the bars as they were built
NewNotch ==
    [running |-> FALSE, processing |-> FALSE, threads |-> 0, pc |-> "none",
     heights |-> <<>>, queue |-> <<>>, bars |-> <<>>]

\* cpal::SampleFormat arms of AudioRecorder::start_recording
Formats == {"F32", "I16", "U16"}

NewCallback ==
    [pc |-> "wait", data |-> <<>>, calls |-> 0, discarded |-> FALSE, delivered |-> <<>>]

\* App::new over freshly constructed services; settings.json holds one of S
\* and the default input device delivers one of the formats F
AppInit(S, F) ==
    /\ settingsFile \in S
    /\ sampleFormat \in F
    /\ callbacks = [w \in 1..MaxTasks |-> NewCallback]
    /\ hotkeyIsFn = (settingsFile.hotkey \in {"Fn", "fn", "globe"})
    /\ is_recording = FALSE
    /\ is_processing = FALSE
    /\ notch = NewNotch
    /\ uiWait = "none"
    /\ hotkeyEvents = <<>>
    /\ fnEvents = <<>>
    /\ lastFnState = FALSE
    /\ tasks = <<>>
    /\ msgs = <<>>
    /\ recorder = [recording |-> FALSE, output_path |-> NoPath, writer |-> NoWriter]
    /\ recLock = NoTask
    /\ meter = 0
    /\ writers = <<>>
    /\ streams = {}
    /\ files = {}
    /\ history = <<>>
    /\ clipboard = <<>>
    /\ pastes = <<>>
    /\ now = 0
    /\ startCalls = 0
    /\ idleToRec = 0

\* no text has gone through the command detection, no sample through a callback
NoCalls ==
    /\ strip_in = [prefix |-> <<>>, phrase |-> <<>>, trailer |-> <<>>]
    /\ strip_out = <<>>
    /\ sample_in = <<>>
    /\ sample_out = <<>>

InitDevice(S, F) == AppInit(S, F) /\ NoCalls

InitWith(S) == InitDevice(S, {"F32"})

Init == InitWith({DefaultSettings, ComboSettings})


\* ----------------------------------------------------------- NotchOverlay
\* notch.rs start_updates: running.swap(true) returns when it was set,
\* otherwise a thread is spawned and its handle kept
start_updates(n) ==
    IF n.running THEN n
    ELSE [n EXCEPT !.running = TRUE, !.threads = @ + 1, !.pc = "test"]
\* notch.rs show_recording / show_processing: set the mode, then show() ->
\* start_updates()
show_recording(n)  == start_updates([n EXCEPT !.processing = FALSE])
show_processing(n) == start_updates([n EXCEPT !.processing = TRUE])

\* notch.rs hide: running = false, the meter is zeroed, the thread of the
\* handle is joined: it ends the pass it is in, posting what it has computed,
\* and leaves its loop at the next test.  Then the panel is ordered out.
hide(n) ==
    IF n.pc = "none" THEN [n EXCEPT !.running = FALSE]
    ELSE [n EXCEPT !.running = FALSE, !.threads = @ - 1, !.pc = "none",
                   !.heights = <<>>,
                   !.queue = IF n.pc = "post" THEN Append(@, n.heights[1]) ELSE @]

\* ------------------------------------------------------- App (ui/mod.rs)
\* Command::perform: at most MaxTasks commands are followed, so an input that
\* may dispatch one more (also after waiting for the mutex) is not taken then
Dispatch(kind) ==
    /\ Len(tasks) < MaxTasks
    /\ tasks' = Append(tasks, NewTask(kind))

\* The handler has to wait for the RecorderService mutex.  It is followed only
\* if the command it may dispatch once it holds the mutex is within MaxTasks: a
\* waiting stop request dispatches only if a start still to run sets the
\* recorder's flag again, a waiting start request unless one does.
MayDispatch(kind) ==
    kind = "start" \/ \E j \in DOMAIN tasks : tasks[j].kind = "start" /\ tasks[j].pc # "done"

WaitForRecorder(kind) ==
    /\ MayDispatch(kind) => Len(tasks) < MaxTasks
    /\ uiWait' = kind
    /\ UNCHANGED <<is_recording, is_processing, notch, idleToRec, tasks>>

\* start_recording_command from the RecorderService::is_recording() call on
StartCmdLocked ==
    /\ uiWait' = "none"
    /\ IF recorder.recording
       THEN /\ is_recording' = TRUE
            /\ idleToRec' = idleToRec + 1
            /\ UNCHANGED <<is_processing, notch, tasks>>
       ELSE /\ notch' = show_recording(notch)
            /\ Dispatch("start")
            /\ UNCHANGED <<is_recording, is_processing, idleToRec>>

start_recording_command ==
    IF is_processing \/ is_recording
    THEN UNCHANGED <<uiVars, tasks>>
    ELSE IF recLock # NoTask
         THEN WaitForRecorder("start")
         ELSE StartCmdLocked

\* stop_recording_command from the RecorderService::is_recording() call on
StopCmdLocked ==
    /\ uiWait' = "none"
    /\ IF ~recorder.recording
       THEN /\ is_recording' = FALSE
            /\ UNCHANGED <<is_processing, notch, tasks, idleToRec>>
       ELSE /\ is_processing' = TRUE
            /\ notch' = show_processing(notch)
            /\ Dispatch("stop")
            /\ UNCHANGED <<is_recording, idleToRec>>

stop_recording_command ==
    IF ~is_recording \/ is_processing
    THEN UNCHANGED <<uiVars, tasks>>
    ELSE IF recLock # NoTask
         THEN WaitForRecorder("stop")
         ELSE StopCmdLocked

\* The UI thread obtains the RecorderService mutex it was waiting for.
UiResume ==
    /\ uiWait # "none"
    /\ recLock = NoTask
    /\ IF uiWait = "start" THEN StartCmdLocked ELSE StopCmdLocked
    /\ UNCHANGED <<fnVars, capVars, inVars, msgs, recVars, meter, extVars>>

\* Message::RecordPressed
RecordPressed ==
    /\ uiWait = "none"
    /\ start_recording_command
    /\ UNCHANGED <<fnVars, capVars, inVars, msgs, recVars, meter, extVars>>

\* Message::StopPressed
StopPressed ==
    /\ uiWait = "none"
    /\ stop_recording_command
    /\ UNCHANGED <<fnVars, capVars, inVars, msgs, recVars, meter, extVars>>

\* a poll that toggles the session on any event, whatever its state
ActOnKey_Toggle(state) ==
    IF ~is_recording /\ ~is_processing
    THEN start_recording_command ELSE stop_recording_command

\* The branch of Message::PollHotkey taken for one event state
ActOnKey(state) ==
    IF state = "Pressed"
    THEN IF ~is_recording /\ ~is_processing
         THEN start_recording_command ELSE UNCHANGED <<uiVars, tasks>>
    ELSE IF is_recording /\ ~is_processing
         THEN stop_recording_command ELSE UNCHANGED <<uiVars, tasks>>

\* Message::PollHotkey
PollHotkey ==
    /\ uiWait = "none"
    /\ IF hotkeyIsFn
       THEN \* FN_KEY_MONITOR.try_recv(): one event per tick
            /\ UNCHANGED hotkeyEvents
            /\ IF fnEvents = <<>>
               THEN UNCHANGED <<fnEvents, uiVars, tasks>>
               ELSE fnEvents' = Tail(fnEvents) /\ ActOnKey(Head(fnEvents))
       ELSE \* HOTKEY_EVENTS drained, the last event is used
            /\ UNCHANGED fnEvents
            /\ hotkeyEvents' = <<>>
            /\ IF hotkeyEvents = <<>>
               THEN UNCHANGED <<uiVars, tasks>>
               ELSE ActOnKey(hotkeyEvents[Len(hotkeyEvents)])
    /\ UNCHANGED <<fnVars, capVars, hotkeyIsFn, lastFnState, msgs, recVars, meter, extVars>>

\* Message::RecordingStarted(result)
UpdateRecordingStarted(m) ==
    /\ is_processing' = FALSE
    /\ IF m.ok
       THEN /\ is_recording' = TRUE
            /\ idleToRec' = IF is_recording THEN idleToRec ELSE idleToRec + 1
            /\ notch' = show_recording(notch)
            /\ UNCHANGED meter
       ELSE /\ notch' = hide(notch)
            /\ meter' = 0
            /\ UNCHANGED <<is_recording, idleToRec>>

\* RecordingStopped handling that resets is_recording only in the Ok arm
UpdateRecordingStopped_OkArmOnly(m) ==
    /\ is_processing' = FALSE
    /\ notch' = hide(notch)
    /\ meter' = 0
    /\ is_recording' = IF m.ok THEN FALSE ELSE is_recording
    /\ UNCHANGED idleToRec

\* Message::RecordingStopped(result); the HistoryLoaded refresh it dispatches
\* on Ok only reloads the list shown in the window.
UpdateRecordingStopped(m) ==
    /\ is_processing' = FALSE
    /\ notch' = hide(notch)
    /\ meter' = 0
    /\ is_recording' = FALSE
    /\ UNCHANGED idleToRec

\* App::update for the next result message of the runtime
HandleMessage ==
    /\ uiWait = "none"
    /\ msgs # <<>>
    /\ msgs' = Tail(msgs)
    /\ IF Head(msgs).kind = "RecordingStarted"
       THEN UpdateRecordingStarted(Head(msgs))
       ELSE UpdateRecordingStopped(Head(msgs))
    /\ UNCHANGED <<fnVars, capVars, uiWait, inVars, tasks, recVars, extVars>>

\* --------------------------------------------------------- input sources
\* global-hotkey delivers a key state into HOTKEY_EVENTS
HotkeyEvent(state) ==
    /\ ~hotkeyIsFn
    /\ Len(hotkeyEvents) < MaxEvents
    /\ hotkeyEvents' = Append(hotkeyEvents, state)
    /\ UNCHANGED <<fnVars, capVars, uiVars, hotkeyIsFn, fnEvents, lastFnState, tasks, msgs, recVars, meter, extVars>>

\* a tap callback that sends the state of every FlagsChanged event, changed
\* or not
FnFlagsChanged_EveryEvent(fn_pressed) ==
    /\ hotkeyIsFn
    /\ Len(fnEvents) < MaxEvents
    /\ lastFnState' = fn_pressed
    /\ fnEvents' = Append(fnEvents, IF fn_pressed THEN "Pressed" ELSE "Released")
    /\ UNCHANGED <<fnVars, capVars, uiVars, hotkeyIsFn, hotkeyEvents, tasks, msgs, recVars, meter, extVars>>

\* fn_key_monitor.rs event tap callback for one FlagsChanged event
FnFlagsChanged(fn_pressed) ==
    /\ hotkeyIsFn
    /\ Len(fnEvents) < MaxEvents
    /\ fn_pressed # lastFnState
    /\ lastFnState' = fn_pressed
    /\ fnEvents' = Append(fnEvents, IF fn_pressed THEN "Pressed" ELSE "Released")
    /\ UNCHANGED <<fnVars, capVars, uiVars, hotkeyIsFn, hotkeyEvents, tasks, msgs, recVars, meter, extVars>>

\* ------------------------------------------- AudioRecorder (audio.rs)
\* no input device or no default config; WavWriter::create fails; the stream
\* cannot be built or played; success
StartOutcomes == {"no_device", "wav_fail", "stream_fail", "ok"}

NewWriter(path) == [path |-> path, state |-> "open", finalizes |-> 0, samples |-> <<>>]

\* A writer nobody refers to any more is dropped: start_recording overwrote
\* self.writer and no input-stream closure holds a clone of the Arc.
Released(ws, w) ==
    IF w # NoWriter /\ w \notin streams /\ ws[w].state = "open"
    THEN [ws EXCEPT ![w].state = "dropped"] ELSE ws

\* AudioRecorder::start_recording(output_path); Ok(()) iff outcome = "ok"
start_recording(path, outcome) ==
    IF outcome = "no_device"
    THEN UNCHANGED <<recorder, writers, streams, files>>
    ELSE IF outcome = "wav_fail"
    THEN /\ recorder' = [recorder EXCEPT !.recording = TRUE, !.output_path = path]
         /\ UNCHANGED <<writers, streams, files>>
    ELSE LET w == Len(writers) + 1 IN
         /\ recorder' = [recording |-> TRUE, output_path |-> path, writer |-> w]
         /\ writers' = Append(Released(writers, recorder.writer), NewWriter(path))
         /\ files' = files \cup {path}
         /\ streams' = IF outcome = "ok" THEN streams \cup {w} ELSE streams

\* ----------------------------------- input stream callbacks (audio.rs)
\* An f32 sample is written in thousandths (1000 is 1.0), an i16 or u16 sample
\* as the integer itself.
I16_MAX == 32767
I16_MIN == -32768

\* the blocks a device hands over: empty, all-zero, and full scale in both
\* directions (beyond it for f32)
F32Blocks == {<<>>, <<0, 0>>, <<-1000, 1500>>}
I16Blocks == {<<>>, <<0, 0>>, <<32767, -32768>>}
U16Blocks == {<<>>, <<32768, 32768>>, <<65535, 0>>}

Blocks(format) ==
    IF format = "F32" THEN F32Blocks
    ELSE IF format = "I16" THEN I16Blocks ELSE U16Blocks

Abs(x) == IF x < 0 THEN -x ELSE x

\* `as i16` on an f32: towards zero, saturating
F32AsI16(num, den) ==
    LET q == IF num < 0 THEN -((-num) \div den) ELSE num \div den
    IN IF q > I16_MAX THEN I16_MAX ELSE IF q < I16_MIN THEN I16_MIN ELSE q

\* `as i16` on an i32: the low 16 bits, read as two's complement
I32AsI16(x) == ((x - I16_MIN) % (2 * (I16_MAX + 1))) + I16_MIN

\* a u16 arm that reads the sample's bits as an i16 without re-centring it
Amplitude_Reinterpreted(format, sample) ==
    IF format = "F32" THEN F32AsI16(sample * I16_MAX, 1000)
    ELSE IF format = "I16" THEN sample
    ELSE I32AsI16(sample)

\* the value handed to writer.write_sample
Amplitude(format, sample) ==
    IF format = "F32" THEN F32AsI16(sample * I16_MAX, 1000)
    ELSE IF format = "I16" THEN sample
    ELSE I32AsI16(sample - 32768)

\* what one sample adds to accum, as a numerator over Scale(format)
AccumTerm(format, sample) ==
    IF format = "F32" THEN Abs(sample) ELSE Abs(Amplitude(format, sample))

Scale(format) == IF format = "F32" THEN 1000 ELSE I16_MAX

RECURSIVE SumTerms(_, _)
SumTerms(format, data) ==
    IF data = <<>> THEN 0
    ELSE AccumTerm(format, Head(data)) + SumTerms(format, Tail(data))

\* a meter value computed without `.min(1.0)`
MeterValue_Unclamped(format, accum, len) ==
    (accum * 1000) \div (len * Scale(format))

\* ((accum / data.len() as f32).min(1.0) * 1000.0) as u32
MeterValue(format, accum, len) ==
    IF accum >= len * Scale(format) THEN 1000
    ELSE (accum * 1000) \div (len * Scale(format))

RECURSIVE BlocksDelivered(_)
BlocksDelivered(w) == IF w = 0 THEN 0 ELSE callbacks[w].calls + BlocksDelivered(w - 1)

CallbackVars == <<uiVars, inVars, tasks, msgs, recorder, recLock, streams, now,
                  startCalls, extVars, sampleFormat, fnVars>>

\* a callback that goes on with its block whatever the running flag says
CallbackTest_IgnoresFlag(w, data) ==
    /\ w \in streams
    /\ callbacks[w].pc = "wait"
    /\ BlocksDelivered(MaxTasks) < MaxBlocks
    /\ callbacks' = [callbacks EXCEPT ![w] =
          [pc |-> "body", data |-> data, calls |-> @.calls + 1,
           discarded |-> ~recorder.recording, delivered |-> @.delivered \o data]]
    /\ UNCHANGED <<CallbackVars, writers, meter>>

\* the device invokes the callback of stream w with a block: the test of the
\* running flag (`if *recording_clone.lock().unwrap()`)
CallbackTest(w, data) ==
    /\ w \in streams
    /\ callbacks[w].pc = "wait"
    /\ BlocksDelivered(MaxTasks) < MaxBlocks
    /\ callbacks' = [callbacks EXCEPT ![w] =
          [pc |-> IF recorder.recording THEN "body" ELSE "wait",
           data |-> IF recorder.recording THEN data ELSE <<>>,
           calls |-> @.calls + 1,
           discarded |-> ~recorder.recording,
           delivered |-> IF recorder.recording THEN @.delivered \o data ELSE @.delivered]]
    /\ UNCHANGED <<CallbackVars, writers, meter>>

\* a callback that writes its block whether or not the writer has been taken
Written_AfterTake(w) ==
    [k \in 1..Len(callbacks[w].data) |-> Amplitude(sampleFormat, callbacks[w].data[k])]

\* the samples the callback converts and writes while it holds the writer
\* mutex: none when the writer has been taken
Written(w) ==
    IF writers[w].state = "open"
    THEN [k \in 1..Len(callbacks[w].data) |-> Amplitude(sampleFormat, callbacks[w].data[k])]
    ELSE <<>>

\* a callback that writes through the recorder's current writer field
\* instead of the writer it captured
CallbackBody_SharedWriter(w) ==
    /\ callbacks[w].pc = "body"
    /\ LET data  == callbacks[w].data
           v     == IF recorder.writer = NoWriter THEN w ELSE recorder.writer
           accum == IF writers[v].state = "open" THEN SumTerms(sampleFormat, data) ELSE 0
       IN /\ writers' = [writers EXCEPT ![v].samples =
                IF writers[v].state = "open"
                THEN @ \o [k \in 1..Len(data) |-> Amplitude(sampleFormat, data[k])] ELSE @]
          /\ meter' = IF data # <<>>
                      THEN MeterValue(sampleFormat, accum, Len(data)) ELSE meter
    /\ callbacks' = [callbacks EXCEPT ![w].pc = "wait", ![w].data = <<>>]
    /\ UNCHANGED CallbackVars

\* the body of the callback after the test: write_sample for every sample,
\* then meter_clone.store(.., Ordering::Relaxed) unless the block is empty
CallbackBody(w) ==
    /\ callbacks[w].pc = "body"
    /\ LET data  == callbacks[w].data
           accum == IF writers[w].state = "open" THEN SumTerms(sampleFormat, data) ELSE 0
       IN /\ writers' = [writers EXCEPT ![w].samples = @ \o Written(w)]
          /\ meter' = IF data # <<>>
                      THEN MeterValue(sampleFormat, accum, Len(data)) ELSE meter
    /\ callbacks' = [callbacks EXCEPT ![w].pc = "wait", ![w].data = <<>>]
    /\ UNCHANGED CallbackVars

\* ------------------------------------------------ commands (workflow.rs)
Msg(kind, i, ok) == [kind |-> kind, task |-> i, ok |-> ok]

Advance(i, stage, next) ==
    tasks' = [tasks EXCEPT ![i].pc = next, ![i].trace = Append(@, <<stage, "ok">>)]

Fail(i, stage) ==
    /\ tasks' = [tasks EXCEPT ![i].pc = "done", ![i].result = "err",
                              ![i].trace = Append(@, <<stage, "err">>)]
    /\ msgs' = Append(msgs, Msg("RecordingStopped", i, FALSE))

At(i, pc) == i \in DOMAIN tasks /\ tasks[i].pc = pc

\* workflow::start_recording: a path from the clock (the second of the last
\* start or a later one), then RecorderService::start
StartTask(i) ==
    /\ At(i, "start")
    /\ recLock = NoTask
    /\ \E t \in {now, now + 1} \ {0}, outcome \in StartOutcomes :
          /\ now' = t
          /\ start_recording(t, outcome)
          /\ tasks' = [tasks EXCEPT ![i].pc = "done", ![i].audio_path = t,
                          ![i].result = IF outcome = "ok" THEN "ok" ELSE "err",
                          ![i].trace = Append(@, <<"start", outcome>>)]
          /\ msgs' = Append(msgs, Msg("RecordingStarted", i, outcome = "ok"))
    /\ startCalls' = startCalls + 1
    /\ UNCHANGED <<fnVars, capVars, uiVars, inVars, recLock, meter, history, clipboard, pastes, settingsFile>>

\* AudioRecorder::stop_recording up to the grace sleep, called through
\* RecorderService::stop by stop_recording_and_transcribe
StopBegin(i) ==
    /\ At(i, "stop")
    /\ recLock = NoTask
    /\ meter' = 0
    /\ IF recorder.output_path = NoPath
       THEN /\ recorder' = [recorder EXCEPT !.recording = FALSE]
            /\ Fail(i, "stop")
            /\ UNCHANGED recLock
       ELSE /\ recorder' = [recorder EXCEPT !.recording = FALSE, !.output_path = NoPath]
            /\ recLock' = i
            /\ tasks' = [tasks EXCEPT ![i].pc = "finalize",
                                      ![i].audio_path = recorder.output_path]
            /\ UNCHANGED msgs
    /\ UNCHANGED <<fnVars, capVars, uiVars, inVars, writers, streams, now, startCalls, extVars>>

\* AudioRecorder::stop_recording after the sleep: the writer is taken and finalized
StopFinalize(i) ==
    /\ At(i, "finalize")
    /\ recLock' = NoTask
    /\ recorder' = [recorder EXCEPT !.writer = NoWriter]
    /\ LET w == recorder.writer IN
       IF w # NoWriter /\ writers[w].state = "open"
       THEN \E ok \in BOOLEAN :
               /\ writers' = [writers EXCEPT ![w].state = IF ok THEN "finalized" ELSE "failed",
                                             ![w].finalizes = @ + 1]
               /\ IF ok
                  THEN /\ tasks' = [tasks EXCEPT ![i].pc = "load",
                              ![i].trace = @ \o << <<"finalize", "ok">>, <<"stop", "ok">> >>]
                       /\ UNCHANGED msgs
                  ELSE /\ tasks' = [tasks EXCEPT ![i].pc = "done", ![i].result = "err",
                              ![i].trace = @ \o << <<"finalize", "err">>, <<"stop", "err">> >>]
                       /\ msgs' = Append(msgs, Msg("RecordingStopped", i, FALSE))
       ELSE /\ UNCHANGED <<writers, msgs>>
            /\ Advance(i, "stop", "load")
    /\ UNCHANGED <<fnVars, capVars, uiVars, inVars, streams, now, startCalls, meter, files, history, clipboard, pastes, settingsFile>>

\* services.settings.load()
WorkflowLoad(i) ==
    /\ At(i, "load")
    /\ \/ Fail(i, "load")
       \/ /\ tasks' = [tasks EXCEPT ![i].pc = "whisper", ![i].settings = settingsFile,
                                    ![i].trace = Append(@, <<"load", "ok">>)]
          /\ UNCHANGED msgs
    /\ UNCHANGED <<fnVars, capVars, uiVars, inVars, recVars, meter, extVars>>

\* a transcription step that goes on with an empty text when whisper fails
WorkflowWhisper_GoesOn(i) ==
    /\ At(i, "whisper")
    /\ \/ tasks' = [tasks EXCEPT
              ![i].pc = IF tasks[i].settings.ai_processing_enabled THEN "ai" ELSE "insert",
              ![i].trace = Append(@, <<"whisper", "err">>)]
       \/ \E t \in RawTexts :
             tasks' = [tasks EXCEPT
                   ![i].pc = IF tasks[i].settings.ai_processing_enabled THEN "ai" ELSE "insert",
                   ![i].text = t,
                   ![i].trace = Append(@, <<"whisper", "ok">>)]
    /\ UNCHANGED <<fnVars, capVars, uiVars, inVars, recVars, meter, extVars, msgs>>

\* transcribe_audio: WhisperClient::transcribe
WorkflowWhisper(i) ==
    /\ At(i, "whisper")
    /\ \/ Fail(i, "whisper")
       \/ \E t \in RawTexts :
             /\ tasks' = [tasks EXCEPT
                   ![i].pc = IF tasks[i].settings.ai_processing_enabled THEN "ai" ELSE "insert",
                   ![i].text = t,
                   ![i].trace = Append(@, <<"whisper", "ok">>)]
             /\ UNCHANGED msgs
    /\ UNCHANGED <<fnVars, capVars, uiVars, inVars, recVars, meter, extVars>>

\* transcribe_audio: get_api_key and AIClient::process_text
WorkflowAI(i) ==
    /\ At(i, "ai")
    /\ \/ Fail(i, "ai")
       \/ \E p \in CleanTexts :
             /\ tasks' = [tasks EXCEPT ![i].pc = "insert", ![i].processed = <<p>>,
                                       ![i].text = p,
                                       ![i].trace = Append(@, <<"ai", "ok">>)]
             /\ UNCHANGED msgs
    /\ UNCHANGED <<fnVars, capVars, uiVars, inVars, recVars, meter, extVars>>

WantsCopy(s, final_text) == s.auto_paste \/ s.auto_paste_and_enter \/ final_text # <<>>

\* transcribe_audio: history.insert_transcription; back in
\* stop_recording_and_transcribe the voice command is looked for
WorkflowInsert(i) ==
    /\ At(i, "insert")
    /\ \/ Fail(i, "insert") /\ UNCHANGED history
       \/ LET t == tasks[i]
              r == IF t.settings.recognize_press_enter
                   THEN detect_and_strip_enter_command(t.text)
                   ELSE <<t.text, FALSE>>
          IN /\ history' = Append(history, [text |-> t.text, processed_text |-> t.processed,
                                             task |-> i])
             /\ tasks' = [tasks EXCEPT
                   ![i].pc = IF WantsCopy(t.settings, r[1]) THEN "copy" ELSE "remove",
                   ![i].final_text = r[1], ![i].enter = r[2],
                   ![i].trace = Append(@, <<"insert", "ok">>)]
             /\ UNCHANGED msgs
    /\ UNCHANGED <<fnVars, capVars, uiVars, inVars, recVars, meter, files, clipboard, pastes, settingsFile>>

\* a rule in which the spoken command alone sends the Enter keystroke
AfterCopy_EnterAlone(s, enter) ==
    IF s.auto_paste_and_enter \/ enter THEN "paste_enter"
    ELSE IF s.auto_paste THEN "paste" ELSE "remove"

\* stop_recording_and_transcribe: what follows a successful copy
AfterCopy(s, enter) ==
    IF s.auto_paste_and_enter \/ (enter /\ s.auto_paste) THEN "paste_enter"
    ELSE IF s.auto_paste THEN "paste" ELSE "remove"

\* a copy step that takes the run's history rows back when the copy fails
WorkflowCopy_UndoesInsert(i) ==
    /\ At(i, "copy")
    /\ \/ /\ tasks' = [tasks EXCEPT ![i].pc = "remove",
                                    ![i].trace = Append(@, <<"copy", "err">>)]
          /\ history' = SelectSeq(history, LAMBDA h : h.task # i)
          /\ UNCHANGED clipboard
       \/ /\ clipboard' = <<tasks[i].final_text>>
          /\ Advance(i, "copy", AfterCopy(tasks[i].settings, tasks[i].enter))
          /\ UNCHANGED history
    /\ UNCHANGED <<fnVars, capVars, uiVars, inVars, recVars, meter, msgs, files, pastes, settingsFile>>

\* stop_recording_and_transcribe: clipboard.copy_text(&final_text)
WorkflowCopy(i) ==
    /\ At(i, "copy")
    /\ \/ /\ tasks' = [tasks EXCEPT ![i].pc = "remove",
                                    ![i].trace = Append(@, <<"copy", "err">>)]
          /\ UNCHANGED clipboard
       \/ /\ clipboard' = <<tasks[i].final_text>>
          /\ Advance(i, "copy", AfterCopy(tasks[i].settings, tasks[i].enter))
    /\ UNCHANGED <<fnVars, capVars, uiVars, inVars, recVars, meter, msgs, files, history, pastes, settingsFile>>

\* a paste step whose failure is returned with `?` instead of being logged
WorkflowPaste_Propagates(i) ==
    /\ At(i, "paste") \/ At(i, "paste_enter")
    /\ \/ /\ Fail(i, tasks[i].pc)
          /\ UNCHANGED <<clipboard, pastes>>
       \/ /\ clipboard' = <<tasks[i].final_text>>
          /\ pastes' = Append(pastes, [text |-> tasks[i].final_text,
                                       enter |-> tasks[i].pc = "paste_enter", task |-> i])
          /\ Advance(i, tasks[i].pc, "remove")
          /\ UNCHANGED msgs
    /\ UNCHANGED <<fnVars, capVars, uiVars, inVars, recVars, meter, files, history, settingsFile>>

\* ClipboardManager::paste_text / paste_text_and_enter: set the clipboard
\* again, sleep, then send the keystrokes with osascript
WorkflowPaste(i) ==
    /\ At(i, "paste") \/ At(i, "paste_enter")
    /\ \/ /\ tasks' = [tasks EXCEPT ![i].pc = "remove",
                                    ![i].trace = Append(@, <<tasks[i].pc, "err">>)]
          /\ UNCHANGED <<clipboard, pastes>>
       \/ /\ clipboard' = <<tasks[i].final_text>>
          /\ tasks' = [tasks EXCEPT ![i].pc = "remove",
                                    ![i].trace = Append(@, <<tasks[i].pc, "err">>)]
          /\ UNCHANGED pastes
       \/ /\ clipboard' = <<tasks[i].final_text>>
          /\ pastes' = Append(pastes, [text |-> tasks[i].final_text,
                                       enter |-> tasks[i].pc = "paste_enter", task |-> i])
          /\ Advance(i, tasks[i].pc, "remove")
    /\ UNCHANGED <<fnVars, capVars, uiVars, inVars, recVars, meter, msgs, files, history, settingsFile>>

\* stop_recording_and_transcribe: remove_file(&audio_path), Ok(transcribed_text)
WorkflowRemove(i) ==
    /\ At(i, "remove")
    /\ files' = files \ {tasks[i].audio_path}
    /\ tasks' = [tasks EXCEPT ![i].pc = "done", ![i].result = "ok",
                              ![i].trace = Append(@, <<"remove", "ok">>)]
    /\ msgs' = Append(msgs, Msg("RecordingStopped", i, TRUE))
    /\ UNCHANGED <<fnVars, capVars, uiVars, inVars, recVars, meter, history, clipboard, pastes, settingsFile>>

TaskStep(i) ==
    \/ StartTask(i)
    \/ StopBegin(i)
    \/ StopFinalize(i)
    \/ WorkflowLoad(i)
    \/ WorkflowWhisper(i)
    \/ WorkflowAI(i)
    \/ WorkflowInsert(i)
    \/ WorkflowCopy(i)
    \/ WorkflowPaste(i)
    \/ WorkflowRemove(i)

Next ==
    \/ RecordPressed
    \/ StopPressed
    \/ PollHotkey
    \/ HandleMessage
    \/ UiResume
    \/ \E state \in {"Pressed", "Released"} : HotkeyEvent(state)
    \/ \E fn_pressed \in BOOLEAN : FnFlagsChanged(fn_pressed)
    \/ \E i \in 1..MaxTasks : TaskStep(i)

Spec == Init /\ [][Next]_vars

\* The window's button as the only input, over every settings.json
WorkflowInit == InitWith(AllSettings)

WorkflowNext ==
    \/ RecordPressed
    \/ StopPressed
    \/ HandleMessage
    \/ UiResume
    \/ \E i \in 1..MaxTasks : TaskStep(i)

WorkflowSpec == WorkflowInit /\ [][WorkflowNext]_vars

\* The trigger key as the only input: the window's buttons are not used
KeyNext ==
    \/ PollHotkey
    \/ HandleMessage
    \/ UiResume
    \/ \E state \in {"Pressed", "Released"} : HotkeyEvent(state)
    \/ \E fn_pressed \in BOOLEAN : FnFlagsChanged(fn_pressed)
    \/ \E i \in 1..MaxTasks : TaskStep(i)

KeySpec == Init /\ [][KeyNext]_vars

\* Fair scheduling: the executor runs every command it was handed, the
\* runtime delivers every result message, a released mutex is obtained.
FairWorkflowSpec ==
    /\ Init /\ [][WorkflowNext]_vars
    /\ WF_vars(HandleMessage)
    /\ WF_vars(UiResume)
    /\ \A i \in 1..MaxTasks : WF_vars(TaskStep(i))

\* The recorder and its input streams under any sequence of start and stop
\* commands: Command::perform without the App's flags in front of it, the
\* executor running RecorderService::start and ::stop, the device calling the
\* callbacks, the overlay being hidden; every sample format.
Perform(kind) ==
    /\ Dispatch(kind)
    /\ UNCHANGED <<fnVars, capVars, uiVars, inVars, msgs, recVars, meter, extVars>>

\* NotchOverlay::hide called by a message handler
OverlayHide ==
    /\ notch' = hide(notch)
    /\ meter' = 0
    /\ UNCHANGED <<fnVars, capVars, is_recording, is_processing, uiWait, idleToRec, inVars,
                   tasks, msgs, recVars, extVars>>

CaptureInit == InitDevice({DefaultSettings}, Formats)

CaptureNext ==
    \/ Perform("start")
    \/ Perform("stop")
    \/ OverlayHide
    \/ \E i \in 1..MaxTasks :
          \/ StartTask(i)
          \/ StopBegin(i)
          \/ StopFinalize(i)
    \/ \E w \in 1..MaxTasks :
          \/ \E data \in Blocks(sampleFormat) : CallbackTest(w, data)
          \/ CallbackBody(w)

CaptureSpec == CaptureInit /\ [][CaptureNext]_vars

\* ------------------------------------------- the command detection alone
\* Texts are put together from what precedes the phrase, the closing words in
\* one of three casings (or words that are none of the phrases), and what
\* follows them.
AllCaps(p) ==
    [k \in DOMAIN p |-> IF \E u \in DOMAIN UpperCase : UpperCase[u] = p[k]
                        THEN CHOOSE u \in DOMAIN UpperCase : UpperCase[u] = p[k]
                        ELSE p[k]]
Casings(p) == {p, AllCaps(p), [k \in DOMAIN p |-> IF k = 1 THEN AllCaps(p)[k] ELSE p[k]]}
PhraseVariants == UNION {Casings(patterns[k]) : k \in DOMAIN patterns}
OtherEndings ==
    { <<"e","n","t","e","r">>,
      <<"p","r","e","s","s"," ","e","n","t","e","r">>,
      <<"c","e","n","t","e","r">>,
      <<"a","n","d"," ","e","n","t","e","r">>,
      <<"t","h","e","n"," ","p","r","e","s","s">>,
      <<"a","n","d"," ","p","r","e","s","s"," ","e","n","t","e","r"," ","n","o","w">>,
      <<"a","n","d"," ","h",CapitalIDot,"t"," ","e","n","t","e","r">> }
Prefixes ==
    { <<>>,
      <<"c","a","l","l"," ","m","o","m"," ">>,
      <<"c","a","l","l"," ","m","o","m",","," "," ">>,
      <<"c","o","m","m">>,
      <<"o","k","\t">>,
      <<CapitalIDot," ">>,
      <<"a","t"," ","t","h","e"," ">> }
Trailers == { <<>>, <<".">>, <<"!","?">>, <<" ",","," ",";">>, <<".","\n">> }
TextOf(in) == in.prefix \o in.phrase \o in.trailer

\* the workflow hands the transcript to detect_and_strip_enter_command
Strip ==
    /\ strip_out = <<>>
    /\ strip_out' = <<detect_and_strip_enter_command(TextOf(strip_in))>>
    /\ UNCHANGED <<strip_in, sample_in, sample_out, capVars, uiVars, inVars, tasks, msgs,
                   recVars, meter, extVars>>

StripInit ==
    /\ AppInit({DefaultSettings}, {"F32"})
    /\ strip_in \in [prefix : Prefixes, phrase : PhraseVariants \cup OtherEndings,
                     trailer : Trailers]
    /\ strip_out = <<>>
    /\ sample_in = <<>>
    /\ sample_out = <<>>

StripSpec == StripInit /\ [][Strip]_vars

\* ------------------------------------------- the u16 conversion alone
\* the u16 input callback converts one sample of its block
Convert ==
    /\ sample_in # <<>>
    /\ sample_out = <<>>
    /\ sample_out' = <<Amplitude(sampleFormat, sample_in[1])>>
    /\ UNCHANGED <<strip_in, strip_out, sample_in, capVars, uiVars, inVars, tasks, msgs,
                   recVars, meter, extVars>>

\* every value a u16 sample can have
ConvertInit ==
    /\ AppInit({DefaultSettings}, {"U16"})
    /\ strip_in = [prefix |-> <<>>, phrase |-> <<>>, trailer |-> <<>>]
    /\ strip_out = <<>>
    /\ sample_in \in {<<s>> : s \in 0..(2 * I16_MAX + 1)}
    /\ sample_out = <<>>

ConvertSpec == ConvertInit /\ [][Convert]_vars

\* --------------------------------------------- the overlay and its thread
\* a handler of App::update calls show_recording or show_processing
OverlayShow(processing) ==
    /\ notch' = IF processing THEN show_processing(notch) ELSE show_recording(notch)
    /\ UNCHANGED <<fnVars, capVars, is_recording, is_processing, uiWait, idleToRec, inVars,
                   tasks, msgs, recVars, meter, extVars>>

\* the update thread finds running set and computes the bar heights from the
\* meter and the mode
UpdateCompute ==
    /\ notch.pc = "test"
    /\ notch.running
    /\ Len(notch.queue) < MaxQueued
    /\ notch' = [notch EXCEPT !.pc = "post",
                   !.heights = <<[processing |-> notch.processing, amplitude |-> meter]>>]
    /\ UNCHANGED <<fnVars, capVars, is_recording, is_processing, uiWait, idleToRec, inVars,
                   tasks, msgs, recVars, meter, extVars>>

\* queue.exec_async(closure) on the main queue, then the 16 ms sleep
UpdatePost ==
    /\ notch.pc = "post"
    /\ notch' = [notch EXCEPT !.pc = "test", !.heights = <<>>,
                              !.queue = Append(@, notch.heights[1])]
    /\ UNCHANGED <<fnVars, capVars, is_recording, is_processing, uiWait, idleToRec, inVars,
                   tasks, msgs, recVars, meter, extVars>>

\* the main thread, between two handlers, runs the next closure of the main
\* queue: setFrame on every bar view
MainQueueRun ==
    /\ notch.queue # <<>>
    /\ notch' = [notch EXCEPT !.queue = Tail(@), !.bars = <<Head(notch.queue)>>]
    /\ UNCHANGED <<fnVars, capVars, is_recording, is_processing, uiWait, idleToRec, inVars,
                   tasks, msgs, recVars, meter, extVars>>

\* an input callback stores the level of its block (silence, below and above
\* the 0.08 the bars respond to, full scale)
MeterStore ==
    /\ \E level \in {0, 50, 500, 1000} : meter' = level
    /\ UNCHANGED <<fnVars, capVars, uiVars, inVars, tasks, msgs, recVars, extVars>>

OverlayInit == InitDevice({DefaultSettings}, {"F32"})

OverlayNext ==
    \/ \E processing \in BOOLEAN : OverlayShow(processing)
    \/ MeterStore
    \/ OverlayHide
    \/ UpdateCompute
    \/ UpdatePost
    \/ MainQueueRun

OverlaySpec == OverlayInit /\ [][OverlayNext]_vars

\* ------------------------------------------------------------ vocabulary
StopTasks  == {i \in DOMAIN tasks : tasks[i].kind = "stop"}
StartTasks == {i \in DOMAIN tasks : tasks[i].kind = "start"}
InTrace(i, e) == \E k \in DOMAIN tasks[i].trace : tasks[i].trace[k] = e
LastTrace(i) == tasks[i].trace[Len(tasks[i].trace)]
Pending(i) == \E k \in DOMAIN msgs : msgs[k].task = i
Idle == ~is_recording /\ ~is_processing
Quiescent ==
    /\ \A i \in DOMAIN tasks : tasks[i].pc = "done"
    /\ msgs = <<>>
    /\ uiWait = "none"
\* the recorder holds a session: running flag, path, writer and a live stream
SessionOpen ==
    /\ recorder.recording
    /\ recorder.output_path # NoPath
    /\ recorder.writer # NoWriter
    /\ recorder.writer \in streams
OpenSessions == {w \in streams : writers[w].state = "open"}
\* App::update is handling the RecordingStopped message of task i in this step
HandlesStopped(i) ==
    /\ uiWait = "none"
    /\ msgs # <<>>
    /\ Head(msgs) = Msg("RecordingStopped", i, Head(msgs).ok)
    /\ msgs' = Tail(msgs)
\* task i executes RecorderService::start in this step
CallsStart(i) == At(i, "start") /\ tasks'[i].pc = "done"
\* the result of stop workflow i has not been handled yet
InFlight(i) == i \in StopTasks /\ (tasks[i].pc # "done" \/ Pending(i))
\* task i leaves the paste stage in this step without a keystroke being sent
PasteFails(i) ==
    /\ At(i, "paste") \/ At(i, "paste_enter")
    /\ tasks'[i].pc # tasks[i].pc
    /\ pastes' = pastes
HistoryOf(i) == {k \in DOMAIN history : history[k].task = i}
PastesOf(i)  == {k \in DOMAIN pastes : pastes[k].task = i}

\* ------------------------------------------------------------------ claims

\* C1: once every dispatched command has run and its result has been handled,
\* the number of RecorderService::start invocations equals the number of times
\* App.is_recording went from false to true.
C1_StartCallsEqualTransitions == Quiescent => startCalls = idleToRec

\* C2: at most one capture session is open at any time: at most one playing
\* stream holds a writer that has not been finalized.
C2_AtMostOneOpenSession == Cardinality(OpenSessions) <= 1

\* C3: a start_recording call made while a session is open returns an error
\* and leaves the session's path, writer and stream as they were.
C3_StartWhileOpenRejected ==
    [][\A i \in 1..MaxTasks :
          (SessionOpen /\ CallsStart(i)) =>
              /\ tasks'[i].result = "err"
              /\ recorder' = recorder
              /\ writers' = writers
              /\ streams' = streams]_vars

\* C4: a stop_recording call returns Ok only by finalizing the writer of an
\* open session, no writer is finalized twice, and a stop that finds no
\* session fails with the not-recording error and finalizes nothing.
C4_StopIdempotent ==
    /\ \A w \in DOMAIN writers : writers[w].finalizes <= 1
    /\ \A i \in StopTasks :
          /\ InTrace(i, <<"stop", "ok">>) => InTrace(i, <<"finalize", "ok">>)
          /\ (InTrace(i, <<"stop", "err">>) /\ ~InTrace(i, <<"finalize", "err">>))
                => tasks[i].audio_path = NoPath

\* C5: handling the RecordingStopped message of a stop workflow leaves
\* is_recording and is_processing false whatever the workflow's result, and
\* every dispatched stop workflow is eventually followed by the Idle state.
C5_StopAlwaysReturnsToIdle ==
    /\ [][\A i \in 1..MaxTasks : HandlesStopped(i) => Idle']_vars
    /\ \A i \in 1..MaxTasks : InFlight(i) ~> Idle

C5_IdleAfterFailedWorkflow ==
    \E i \in StopTasks :
        /\ tasks[i].result = "err"
        /\ InTrace(i, <<"stop", "ok">>)
        /\ ~Pending(i)
        /\ Idle

\* C6: when the AI clean-up (or its API key lookup) fails after a successful
\* transcription the run still ends as a success, and the raw transcript is
\* what the history row and the clipboard hold.
C6_CleanupFailureDegrades ==
    \A i \in StopTasks :
        (InTrace(i, <<"ai", "err">>) /\ tasks[i].pc = "done") =>
            /\ tasks[i].result = "ok"
            /\ \E k \in HistoryOf(i) : history[k].text = tasks[i].text
            /\ tasks[i].text # <<>> => InTrace(i, <<"copy", "ok">>) \/ InTrace(i, <<"copy", "err">>)

\* C7: when insert_transcription fails after a successful transcription the
\* run still copies the final text to the clipboard.
C7_InsertFailureStillDelivers ==
    \A i \in StopTasks :
        (InTrace(i, <<"insert", "err">>) /\ tasks[i].pc = "done" /\ tasks[i].text # <<>>) =>
            InTrace(i, <<"copy", "ok">>) \/ InTrace(i, <<"copy", "err">>)

\* C8: once the capture has been stopped, the temporary audio file of the run
\* no longer exists when the workflow has ended, whatever its result.
C8_TempFileDeleted ==
    \A i \in StopTasks :
        (InTrace(i, <<"stop", "ok">>) /\ tasks[i].pc = "done") =>
            tasks[i].audio_path \notin files

\* C9: when the transcription fails the workflow stops there with an error:
\* no AI call, no history row, no copy and no paste in that run, the error is
\* the result message, and handling it returns the session to Idle.
C9_TranscriptionFailureAborts ==
    /\ [](\A i \in StopTasks :
            InTrace(i, <<"whisper", "err">>) =>
                /\ LastTrace(i) = <<"whisper", "err">>
                /\ tasks[i].pc = "done"
                /\ tasks[i].result = "err"
                /\ HistoryOf(i) = {}
                /\ PastesOf(i) = {})
    /\ [][\A i \in 1..MaxTasks :
            /\ (At(i, "whisper") /\ tasks'[i].pc = "done") =>
                  /\ msgs' = Append(msgs, Msg("RecordingStopped", i, FALSE))
                  /\ clipboard' = clipboard
            /\ (HandlesStopped(i) /\ InTrace(i, <<"whisper", "err">>)) => Idle']_vars

C9_TranscriptionFailed ==
    \E i \in StopTasks : InTrace(i, <<"whisper", "err">>) /\ ~Pending(i) /\ Idle

\* C10: a paste or paste-and-enter failure after a successful copy changes
\* neither the history nor the copied text on the clipboard, and the run
\* still ends as a success.
C10_PasteIsBestEffort ==
    /\ [](\A i \in StopTasks :
            (InTrace(i, <<"paste", "err">>) \/ InTrace(i, <<"paste_enter", "err">>)) =>
                /\ InTrace(i, <<"copy", "ok">>)
                /\ tasks[i].result # "err"
                /\ HistoryOf(i) # {})
    /\ [][\A i \in 1..MaxTasks :
            PasteFails(i) =>
                /\ history' = history
                /\ clipboard = <<tasks[i].final_text>> => clipboard' = clipboard
                /\ tasks'[i].pc = "remove"]_vars

C10_PasteFailedRunSucceeded ==
    \E i \in StopTasks :
        /\ InTrace(i, <<"paste", "err">>) \/ InTrace(i, <<"paste_enter", "err">>)
        /\ tasks[i].result = "ok"
        /\ clipboard = <<tasks[i].final_text>>
        /\ HistoryOf(i) # {}

\* ----------------------------------------------------- capture vocabulary
\* the device invokes the callback of stream w in this step
CallbackInvoked(w) == callbacks'[w].calls = callbacks[w].calls + 1
\* the callback of stream w stores a value into the meter in this step
CallbackStores(w) == callbacks[w].pc = "body" /\ callbacks'[w].pc = "wait" /\ callbacks[w].data # <<>>
\* stop_recording has taken the writer of stream w and has returned
StopReturned(w) == writers[w].state \in {"finalized", "failed"}
\* stream w belongs to the session the recorder holds
ActiveSession(w) == recorder.recording /\ recorder.writer = w
\* a message handler calls NotchOverlay::hide in this step
OverlayStores ==
    /\ uiWait = "none"
    /\ msgs # <<>>
    /\ msgs' = Tail(msgs)
    /\ Head(msgs).kind = "RecordingStopped" \/ ~Head(msgs).ok

\* C11: whenever no capture is running and no stop_recording call is under
\* way (the last stop has returned, no start has followed), the meter reads 0.
C11_MeterZeroAfterStop ==
    (~recorder.recording /\ recLock = NoTask) => meter = 0

\* C12: a step that stores into the meter is the reset of stop_recording or
\* the callback of the session the recorder holds: never the overlay, never
\* the callback of another stream.
C12_MeterSingleWriter ==
    [][/\ ~OverlayStores
       /\ \A w \in 1..MaxTasks : CallbackStores(w) => ActiveSession(w)]_vars

\* C13: the meter always holds a value from 0 to 1000.
C13_MeterInRange == meter \in 0..1000

C13_FullScaleBlockStored ==
    /\ meter = 1000
    /\ \E w \in streams : callbacks[w].calls > 0 /\ writers[w].samples # <<>>

\* C14: the callback of a stream is never invoked after the stop_recording
\* call that ended its session has returned.
C14_StreamReleasedOnStop ==
    [][\A w \in 1..MaxTasks : CallbackInvoked(w) => ~StopReturned(w)]_vars

\* C15: a callback that finds the running flag false discards its block: the
\* invocation appends no sample to any writer, leaves the meter alone and ends
\* there.
C15_StoppedCallbackDiscards ==
    /\ [](\A w \in 1..MaxTasks : callbacks[w].discarded => callbacks[w].pc = "wait")
    /\ [][\A w \in 1..MaxTasks :
            (CallbackInvoked(w) /\ ~recorder.recording) =>
                /\ writers' = writers
                /\ meter' = meter
                /\ callbacks'[w].pc = "wait"]_vars

C15_BlockDiscarded ==
    \E w \in streams :
        /\ callbacks[w].discarded
        /\ callbacks[w].calls > 0
        /\ ~recorder.recording
        /\ writers[w].samples = <<>>

\* ----------------------------------------------------- session vocabulary
Recording  == is_recording /\ ~is_processing
Processing == is_processing
\* the recorder holds a session: running flag set, destination path held
SessionHeld == recorder.recording /\ recorder.output_path # NoPath
\* a command of this kind is handed to the executor in this step
Dispatches(kind) ==
    /\ Len(tasks') = Len(tasks) + 1
    /\ tasks'[Len(tasks')].kind = kind
\* Message::PollHotkey is handled in this step and finds at least one event
PollStep ==
    /\ uiWait = "none"
    /\ \/ hotkeyIsFn /\ fnEvents # <<>> /\ fnEvents' = Tail(fnEvents)
       \/ ~hotkeyIsFn /\ hotkeyEvents # <<>> /\ hotkeyEvents' = <<>>
\* the event state the poll of this step acts on
PolledState ==
    IF hotkeyIsFn THEN Head(fnEvents) ELSE hotkeyEvents[Len(hotkeyEvents)]
\* commands whose result message has not been handled yet
CommandsInFlight == {i \in DOMAIN tasks : tasks[i].pc # "done" \/ Pending(i)}

\* C16: a start is dispatched only from Idle and a stop workflow only from
\* Recording; a poll dispatches a start only for Pressed and a stop only for
\* Released; a polled Pressed outside Idle and a polled Released outside
\* Recording change neither the session flags nor the overlay nor the commands.
C16_EdgeTriggering ==
    [][/\ Dispatches("start") => Idle
       /\ Dispatches("stop") => Recording
       /\ PollStep =>
            /\ Dispatches("start") => PolledState = "Pressed"
            /\ Dispatches("stop") => PolledState = "Released"
            /\ uiWait' = "start" => PolledState = "Pressed" /\ Idle
            /\ uiWait' = "stop" => PolledState = "Released" /\ Recording
            /\ (PolledState = "Pressed" /\ ~Idle) => UNCHANGED <<uiVars, tasks>>
            /\ (PolledState = "Released" /\ ~Recording) => UNCHANGED <<uiVars, tasks>>]_vars

C16_PolledPressStarted ==
    /\ hotkeyIsFn /\ lastFnState /\ fnEvents = <<>>
    /\ Len(tasks) = 1 /\ tasks[1].kind = "start"
    /\ startCalls = 1

\* C17: no step takes the session from Recording directly to Idle, from
\* Processing to Recording, or from Idle directly to Processing.
C17_OnlyListedTransitions ==
    [][/\ ~(Recording /\ Idle')
       /\ ~(Processing /\ Recording')
       /\ ~(Idle /\ Processing')]_vars

\* C18: the recorder holds a session only while the session state is Recording
\* or Processing with the engine stop still to come, it holds one whenever the
\* state is Recording or a stop workflow has not reached the engine yet, and
\* never while the state is Idle.
C18_SessionOpenIffRecording ==
    /\ SessionHeld =>
          \/ Recording
          \/ Processing /\ \E i \in StopTasks : tasks[i].pc = "stop"
    /\ Recording => SessionHeld
    /\ (Processing /\ \E i \in StopTasks : tasks[i].pc = "stop") => SessionHeld

\* C19: a poll that finds events leaves none of the active source queued and
\* acts on the last one that arrived.
C19_PollingFold ==
    [][PollStep =>
          /\ hotkeyIsFn => fnEvents' = <<>>
          /\ ~hotkeyIsFn => hotkeyEvents' = <<>>]_vars

\* C20: at most one session command is in flight: no second command is
\* dispatched before the result message of the previous one has been handled.
C20_TransitionsSerialized == Cardinality(CommandsInFlight) <= 1


\* --------------------------------------------------- processing vocabulary
\* a RecordPressed handled in this state gets through both tests of
\* start_recording_command and hands a start command to the executor
StartAccepted ==
    /\ uiWait = "none"
    /\ ~(is_processing \/ is_recording)
    /\ recLock = NoTask
    /\ ~recorder.recording
\* a StopPressed handled in this state gets through both tests of
\* stop_recording_command and hands a stop workflow to the executor
StopAccepted ==
    /\ uiWait = "none"
    /\ ~(~is_recording \/ is_processing)
    /\ recLock = NoTask
    /\ recorder.recording
StopInFlight == \E i \in StopTasks : InFlight(i)

\* C21: from the dispatch of a stop workflow until its result has been
\* handled, no input is accepted: no state in between lets a RecordPressed or
\* a StopPressed through to a dispatch, and no step in between dispatches a
\* start command or a second stop workflow.
C21_ProcessingNotReentered ==
    /\ [](StopInFlight => ~StartAccepted /\ ~StopAccepted)
    /\ [][StopInFlight => ~Dispatches("start") /\ ~Dispatches("stop")]_vars


\* ----------------------------------------------------- workflow vocabulary
\* the stages of run i that have been attempted, in order
Stages(i) == [k \in DOMAIN tasks[i].trace |-> tasks[i].trace[k][1]]
\* in run i every attempt of stage b comes after an attempt of stage a
Precedes(i, a, b) ==
    \A k \in DOMAIN tasks[i].trace :
        Stages(i)[k] = b => \E j \in 1..(k - 1) : Stages(i)[j] = a
DeliveryStages == {"copy", "paste", "paste_enter"}
\* run i attempts a copy or a paste in this step
Delivers(i) ==
    /\ i \in DOMAIN tasks
    /\ tasks[i].pc \in DeliveryStages
    /\ tasks'[i].pc # tasks[i].pc

\* C22: in every workflow run RecorderService::stop has returned Ok (and has
\* released the recorder) before the transcription is invoked, the history
\* insert is attempted before any copy or paste, and a copy or paste step,
\* failed or not, leaves the history as it was.
C22_WorkflowOrdering ==
    /\ [](\A i \in StopTasks :
            /\ Precedes(i, "stop", "whisper")
            /\ InTrace(i, <<"whisper", "ok">>) \/ InTrace(i, <<"whisper", "err">>)
                  => InTrace(i, <<"stop", "ok">>)
            /\ tasks[i].pc = "whisper" => recLock # i
            /\ \A d \in DeliveryStages : Precedes(i, "insert", d)
            /\ tasks[i].pc \in DeliveryStages => InTrace(i, <<"insert", "ok">>))
    /\ [][\A i \in 1..MaxTasks : Delivers(i) => history' = history]_vars

C22_CopyFailedRowKept ==
    \E i \in StopTasks :
        /\ InTrace(i, <<"copy", "err">>)
        /\ tasks[i].pc = "done"
        /\ \E k \in HistoryOf(i) : history[k].text = tasks[i].text


\* run i ends the given stage in this step
Leaves(i, stage) == At(i, stage) /\ tasks'[i].pc # stage
\* run i has attempted the copy
CopyAttempted(i) == InTrace(i, <<"copy", "ok">>) \/ InTrace(i, <<"copy", "err">>)

\* C25: a run whose final text is not empty attempts the copy whatever the
\* settings; after a successful copy it pastes with Enter exactly when
\* auto_paste_and_enter is set or the spoken command was found and auto_paste
\* is set, else pastes without Enter exactly when auto_paste is set, else
\* pastes nothing; after a failed copy nothing is pasted.
C25_DeliveryRule ==
    /\ [](\A i \in StopTasks :
            /\ (InTrace(i, <<"insert", "ok">>) /\ tasks[i].final_text # <<>>)
                  => tasks[i].pc = "copy" \/ CopyAttempted(i)
            /\ (PastesOf(i) # {} \/ tasks[i].pc \in {"paste", "paste_enter"}
                  \/ (\E r \in {"ok", "err"} : InTrace(i, <<"paste", r>>) \/ InTrace(i, <<"paste_enter", r>>)))
                  => InTrace(i, <<"copy", "ok">>) /\ ~InTrace(i, <<"copy", "err">>))
    /\ [][\A i \in 1..MaxTasks :
            Leaves(i, "copy") =>
                LET t == tasks[i]
                    s == t.settings
                    submit == s.auto_paste_and_enter \/ (t.enter /\ s.auto_paste)
                IN IF InTrace(i, <<"copy", "ok">>)'
                   THEN /\ tasks'[i].pc = "paste_enter" <=> submit
                        /\ tasks'[i].pc = "paste" <=> (~submit /\ s.auto_paste)
                        /\ tasks'[i].pc = "remove" <=> (~submit /\ ~s.auto_paste)
                   ELSE tasks'[i].pc = "remove" /\ pastes' = pastes]_vars

C25_SpokenCommandSubmitted ==
    \E i \in StopTasks :
        /\ tasks[i].enter
        /\ tasks[i].settings.auto_paste /\ ~tasks[i].settings.auto_paste_and_enter
        /\ \E k \in PastesOf(i) : pastes[k].enter /\ pastes[k].text = tasks[i].final_text
        /\ tasks[i].final_text # <<>>


\* ------------------------------------------------------ command vocabulary
\* the first word of the closing words is the conjunction "and" or "then"
AfterConjunction(p) ==
    \E c \in Casings(<<"a","n","d"," ">>) \cup Casings(<<"t","h","e","n"," ">>) :
        Len(p) > Len(c) /\ SubSeq(p, 1, Len(c)) = c
\* the text ends with one of the phrases, followed by nothing but the
\* characters the detection trims
Spoken(in) ==
    /\ in.phrase \in PhraseVariants
    /\ AfterConjunction(in.phrase)
    /\ \A k \in DOMAIN in.trailer : in.trailer[k] \in TrimChars
\* s without its trailing whitespace
WithoutTrailingSpace(s) ==
    LET keep == {k \in 0..Len(s) : \A j \in (k + 1)..Len(s) : s[j] \in Whitespace}
    IN SubSeq(s, 1, CHOOSE k \in keep : \A j \in keep : k <= j)

\* C23: for a text that ends, before trailing '.', '!', '?', ',', ';' and
\* spaces, with one of the phrases in any casing, the detection returns what
\* precedes the phrase without its trailing whitespace, and the flag true.
C23_CommandStripped ==
    (strip_out # <<>> /\ Spoken(strip_in)) =>
        strip_out[1] = <<WithoutTrailingSpace(strip_in.prefix), TRUE>>

C23_UpperCaseCommandStripped ==
    /\ strip_out # <<>>
    /\ Spoken(strip_in)
    /\ strip_in.phrase = AllCaps(patterns[5])
    /\ strip_in.trailer # <<>>
    /\ strip_in.prefix = <<"c","a","l","l"," ","m","o","m"," ">>
    /\ strip_out[1] = << <<"c","a","l","l"," ","m","o","m">>, TRUE >>

\* C24: the flag is set only for a text that ends with a phrase that begins
\* with "and" or "then"; every phrase looked for begins so; and for a text
\* that does not end with such a phrase the detection returns the text as it
\* was given, trailing punctuation included, and the flag false.
C24_NoFalsePositive ==
    /\ \A k \in DOMAIN patterns : AfterConjunction(patterns[k])
    /\ strip_out # <<>> =>
          /\ strip_out[1][2] => Spoken(strip_in)
          /\ ~Spoken(strip_in) => strip_out[1] = <<TextOf(strip_in), FALSE>>

C24_BarePhraseKept ==
    /\ strip_out # <<>>
    /\ strip_in.phrase = <<"p","r","e","s","s"," ","e","n","t","e","r">>
    /\ strip_in.trailer = <<"!","?">>
    /\ strip_in.prefix # <<>>
    /\ strip_out[1] = <<TextOf(strip_in), FALSE>>


\* -------------------------------------------------------- stop vocabulary
\* stop_recording, called by task i, passes its first two statements in this step
StopBegins(i) == At(i, "stop") /\ tasks'[i].pc # "stop"
\* the writer of stream w is finalized (or fails to be) in this step
Finalized(w) ==
    /\ w \in DOMAIN writers
    /\ writers[w].state = "open"
    /\ writers'[w].state \in {"finalized", "failed"}
\* stop_recording, called by task i, returns Ok(path) in this step
StopReturnsOk(i) == At(i, "finalize") /\ tasks'[i].pc = "load"

\* C26: stop_recording first clears the running flag and zeroes the meter,
\* finalizing nothing yet; a writer is finalized only by the stop call that is
\* past its sleep; the path it returns with Ok is the one the path field held
\* when it was called, a path given to a start_recording call; and no step
\* appends a sample to a writer that has been taken.
C26_StopOrdering ==
    [][/\ \A i \in 1..MaxTasks :
            /\ StopBegins(i) =>
                  /\ ~recorder'.recording
                  /\ meter' = 0
                  /\ \A w \in DOMAIN writers : ~Finalized(w)
            /\ StopBegins(i) /\ tasks'[i].pc = "finalize" =>
                  tasks'[i].audio_path = recorder.output_path
            /\ StopReturnsOk(i) =>
                  /\ tasks'[i].audio_path = tasks[i].audio_path
                  /\ \E j \in StartTasks :
                        tasks[j].pc = "done" /\ tasks[j].audio_path = tasks[i].audio_path
       /\ \A w \in DOMAIN writers :
            /\ Finalized(w) => \E i \in StopTasks : At(i, "finalize") /\ recLock = i
            /\ writers[w].state # "open" => writers'[w].samples = writers[w].samples]_vars


C26_LateCallbackSkipped ==
    \E w \in streams :
        /\ writers[w].state = "finalized"
        /\ callbacks[w].pc = "wait"
        /\ callbacks[w].delivered # <<>>
        /\ writers[w].samples = <<>>


\* ------------------------------------------------- conversion vocabulary
\* the reference conversion of a sample to 16 bits, in thousandths of a unit:
\* an f32 sample times i16::MAX, held to the 16-bit range
Reference(format, sample) ==
    IF format = "F32"
    THEN LET x == sample * I16_MAX
         IN IF x > 1000 * I16_MAX THEN 1000 * I16_MAX
            ELSE IF x < 1000 * I16_MIN THEN 1000 * I16_MIN ELSE x
    ELSE IF format = "I16" THEN 1000 * sample
    ELSE 1000 * (sample - 32768)
\* a written value v is the canonical conversion of the sample
Canonical(format, sample, v) ==
    IF format = "F32" THEN Abs(1000 * v - Reference(format, sample)) <= 1000
    ELSE 1000 * v = Reference(format, sample)

\* C29: a finalized file holds, in arrival order, exactly one sample for every
\* sample its stream's callback was handed while the running flag was set,
\* each the canonical 16-bit conversion of its input.
C29_CaptureRoundTrip ==
    \A w \in DOMAIN writers :
        writers[w].state = "finalized" =>
            /\ Len(writers[w].samples) = Len(callbacks[w].delivered)
            /\ \A k \in DOMAIN writers[w].samples :
                  k \in DOMAIN callbacks[w].delivered =>
                      Canonical(sampleFormat, callbacks[w].delivered[k], writers[w].samples[k])


\* C30: the value written for a u16 sample s is s - 32768, a value from
\* -32768 to 32767, and a greater sample gives a greater value: 0 gives
\* -32768, 32768 gives 0, 65535 gives 32767.
C30_U16Recentred ==
    sample_out # <<>> =>
        LET s == sample_in[1]
            v == sample_out[1]
        IN /\ v = s - 32768
           /\ v \in I16_MIN..I16_MAX
           /\ s < 65535 => v < Amplitude("U16", s + 1)
           /\ s = 0 => v = -32768
           /\ s = 32768 => v = 0
           /\ s = 65535 => v = 32767

C30_TopSampleConverted == sample_in = <<65535>> /\ sample_out = <<32767>>


\* ----------------------------------------------------- overlay vocabulary
\* hide() has returned and no show has followed
Hidden == ~notch.running
\* a bar update posted by the update thread is applied in this step
BarsUpdated == Len(notch'.queue) < Len(notch.queue)

\* C28: there is never more than one update thread, none is left once hide
\* has returned, and no bar update is applied between the return of hide and
\* the next show.
C28_OverlayQuiesces ==
    /\ [](notch.threads <= 1 /\ (Hidden => notch.threads = 0 /\ notch.pc = "none"))
    /\ [][Hidden => ~BarsUpdated]_vars


\* C27: no handler of the UI thread waits for the RecorderService mutex: the
\* is_recording() call of start_recording_command and stop_recording_command
\* never finds the mutex held by a start or a stop that is executing.
C27_UiNeverWaits == uiWait = "none"


\* C31: the voice command is looked for before the history row is written, so
\* the row of a run holds the run's final text, the one that is copied.
C31_HistoryHoldsFinalText ==
    \A i \in StopTasks :
        \A k \in HistoryOf(i) :
            /\ InTrace(i, <<"insert", "ok">>)
            /\ history[k].text = tasks[i].final_text

\* C32: the row keeps both texts: the text handed to the insert is still the
\* transcript whisper returned after a successful clean-up, whose result goes
\* into processed_text; without clean-up processed_text is absent.
C32_HistoryKeepsBothTexts ==
    /\ [](\A i \in StopTasks : \A k \in HistoryOf(i) :
            /\ history[k].text = tasks[i].text
            /\ history[k].processed_text = tasks[i].processed
            /\ ~tasks[i].settings.ai_processing_enabled => history[k].processed_text = <<>>
            /\ tasks[i].settings.ai_processing_enabled => history[k].processed_text # <<>>)
    /\ [][\A i \in 1..MaxTasks :
            Leaves(i, "ai") /\ tasks'[i].pc = "insert" => tasks'[i].text = tasks[i].text]_vars


\* C33: once the key has been released, every event has been polled, every
\* command has run and every result has been handled (the state the system
\* stays in when no further input arrives), the session is Idle and the
\* recorder is not recording.
C33_ReleaseEndsCapture ==
    (/\ hotkeyIsFn
     /\ tasks # <<>>
     /\ ~lastFnState
     /\ fnEvents = <<>>
     /\ Quiescent) => Idle /\ ~recorder.recording


\* C34: a start_recording call that returns an error while no session is held
\* leaves the recorder as it was: running flag false, no path, no writer, so
\* that a stop_recording that follows fails with the not-recording error.
C34_FailedStartLeavesNothing ==
    [][\A i \in 1..MaxTasks :
          (CallsStart(i) /\ tasks'[i].result = "err"
             /\ ~recorder.recording /\ recorder.output_path = NoPath /\ recorder.writer = NoWriter)
          => /\ ~recorder'.recording
             /\ recorder'.output_path = NoPath
             /\ recorder'.writer = NoWriter]_vars


\* C35: while a dispatched stop workflow has not had its RecordingStopped
\* message handled, is_processing is true, and nothing but the handling of
\* that message clears it.
C35_ProcessingHeld ==
    /\ [](StopInFlight => is_processing)
    /\ [][(is_processing /\ ~is_processing') => \E i \in 1..MaxTasks : HandlesStopped(i)]_vars


C37_PhraseAtWordBoundary ==
    (strip_out # <<>> /\ strip_out[1][2]) =>
        \/ strip_in.prefix = <<>>
        \/ strip_in.prefix[Len(strip_in.prefix)] \in Whitespace


\* C38: a run whose final text is empty performs no copy and no paste,
\* whatever auto_paste and auto_paste_and_enter are.
C38_EmptyTextNotDelivered ==
    \A i \in StopTasks :
        (InTrace(i, <<"insert", "ok">>) /\ tasks[i].final_text = <<>>) =>
            /\ tasks[i].pc \notin DeliveryStages
            /\ ~CopyAttempted(i)
            /\ PastesOf(i) = {}

\* C39: the events the tap callback sends alternate, beginning with Pressed:
\* the event sent is Pressed when the last one was Released (or none was
\* sent) and Released when it was Pressed; it goes to the back of the channel
\* and the poll takes from the front.
C39_FnEventsAlternate ==
    /\ [](/\ \A k \in 1..(Len(fnEvents) - 1) : fnEvents[k] # fnEvents[k + 1]
          /\ fnEvents # <<>> => (fnEvents[Len(fnEvents)] = "Pressed" <=> lastFnState))
    /\ [][/\ Len(fnEvents') > Len(fnEvents) =>
                /\ fnEvents' = Append(fnEvents, IF lastFnState THEN "Released" ELSE "Pressed")
                /\ lastFnState' = ~lastFnState
          /\ Len(fnEvents') < Len(fnEvents) => fnEvents' = Tail(fnEvents)
          /\ lastFnState' # lastFnState => Len(fnEvents') > Len(fnEvents)]_vars

C39_PressThenReleaseQueued ==
    /\ fnEvents = <<"Pressed", "Released">>
    /\ ~lastFnState

====
